---- MODULE Spec2Model ----
(***************************************************************************)
(* Model of rts/Rendering/Models/AssParser.cpp (Spring engine): the load   *)
(* sequence CAssParser::Load runs on an imported scene,                    *)
(*   CalculatePerMeshMinMax -> FindTextures -> LoadPiece(root)             *)
(*   -> BuildPieceHierarchy -> CalculateModelProperties                    *)
(*   (-> CalculateModelDimensions).                                        *)
(* Floats are modelled as integers; vectors are triples <<x, y, z>>.       *)
(* Optional overlay (LuaTable) keys are <<>> (absent) or <<v>> (present).  *)
(* A piece object is identified by the index of the scene node it was      *)
(* built from; 0 is the NULL piece pointer.  A file of the virtual file    *)
(* system is a record of its directory, its name up to the first dot and   *)
(* the rest of its name.                                                   *)
(***************************************************************************)
EXTENDS Integers, Sequences, FiniteSets, TLC

VARIABLES nodes, meshes, materials, vfsFiles, modelFilePath, metaTable,
          model, piece, pc,
          forwardRef   \* history: the linking pass met a piece before its parent

vars == <<nodes, meshes, materials, vfsFiles, modelFilePath, metaTable,
          model, piece, pc, forwardRef>>

(* ---------------------------- bounds ----------------------------------- *)
MaxNodes == 3
MaxMeshRefs == 2
MaxVerts == 2
MaxFaces == 2

(* ---------------------------- float3 ----------------------------------- *)
ZeroVector == <<0, 0, 0>>
OnesVector == <<1, 1, 1>>
DEF_MIN_SIZE == <<10000, 10000, 10000>>
DEF_MAX_SIZE == <<-10000, -10000, -10000>>

Min2(a, b) == IF a < b THEN a ELSE b
Max2(a, b) == IF a > b THEN a ELSE b
Abs(a) == IF a < 0 THEN -a ELSE a

\* std::min / std::max / std::fabs on float3 are component-wise
float3Min(u, v) == <<Min2(u[1], v[1]), Min2(u[2], v[2]), Min2(u[3], v[3])>>
float3Max(u, v) == <<Max2(u[1], v[1]), Max2(u[2], v[2]), Max2(u[3], v[3])>>
float3Fabs(u) == <<Abs(u[1]), Abs(u[2]), Abs(u[3])>>
float3Add(u, v) == <<u[1] + v[1], u[2] + v[2], u[3] + v[3]>>
float3Sub(u, v) == <<u[1] - v[1], u[2] - v[2], u[3] - v[3]>>

\* largest r with r * r <= n (the float square root, rounded down)
RECURSIVE SqrtFrom(_, _)
SqrtFrom(n, r) == IF (r + 1) * (r + 1) > n THEN r ELSE SqrtFrom(n, r + 1)
RECURSIVE SqrtScale(_)
SqrtScale(n) == IF n < 4 THEN SqrtFrom(n, 0) ELSE SqrtFrom(n, 2 * SqrtScale(n \div 4))
float3Length(u) == SqrtScale(u[1] * u[1] + u[2] * u[2] + u[3] * u[3])

(* ---------------------------- matrices --------------------------------- *)
\* a 3x3 linear map as a tuple of rows
IdentityMatrix == <<<<1, 0, 0>>, <<0, 1, 0>>, <<0, 0, 1>>>>
RotZ90Matrix == <<<<0, -1, 0>>, <<1, 0, 0>>, <<0, 0, 1>>>>

MatTranspose(m) == <<<<m[1][1], m[2][1], m[3][1]>>,
                     <<m[1][2], m[2][2], m[3][2]>>,
                     <<m[1][3], m[2][3], m[3][3]>>>>

\* n[0..15] is filled row by row from the row-major source into column-major
\* storage (a transpose of the linear map), then n.Transpose() undoes it and
\* the basis vectors are repacked unchanged.
aiMatrixToMatrix(m) == MatTranspose(MatTranspose(m))

\* CMatrix44f::Scale: basis vector X times s.x, Y times s.y, Z times s.z
MatScale(m, s) == <<<<m[1][1] * s[1], m[1][2] * s[2], m[1][3] * s[3]>>,
                    <<m[2][1] * s[1], m[2][2] * s[2], m[2][3] * s[3]>>,
                    <<m[3][1] * s[1], m[3][2] * s[2], m[3][3] * s[3]>>>>

\* CMatrix44f::Mul(float3): the linear map applied to a vector
MatMul(m, v) == <<m[1][1] * v[1] + m[1][2] * v[2] + m[1][3] * v[3],
                  m[2][1] * v[1] + m[2][2] * v[2] + m[2][3] * v[3],
                  m[3][1] * v[1] + m[3][2] * v[2] + m[3][3] * v[3]>>

(* ---------------------------- LuaTable --------------------------------- *)
KeyExists(opt) == opt # <<>>
GetValue(opt, def) == IF opt # <<>> THEN opt[1] ELSE def

\* a sub-table that is absent reads as a table without keys
EmptyPieceTable == [parent |-> <<>>, offset |-> <<>>, scale |-> <<>>]
SubTable(tables, name) ==
    IF name \in DOMAIN tables THEN tables[name] ELSE EmptyPieceTable

(* ---------------------------- scene ------------------------------------ *)
\* node->mChildren of node n, in order
RECURSIVE ChildrenFrom(_, _)
ChildrenFrom(n, i) ==
    IF i > Len(nodes) THEN <<>>
    ELSE IF nodes[i].mParent = n THEN <<i>> \o ChildrenFrom(n, i + 1)
    ELSE ChildrenFrom(n, i + 1)
mChildren(n) == ChildrenFrom(n, n + 1)

\* IntToString(i, "%02i")
DigitChars == <<"0", "1", "2", "3", "4", "5", "6", "7", "8", "9">>
RECURSIVE DecimalString(_)
DecimalString(i) ==
    IF i < 10 THEN DigitChars[i + 1]
    ELSE DecimalString(i \div 10) \o DigitChars[(i % 10) + 1]
IntToString(i) == IF i < 10 THEN "0" \o DecimalString(i) ELSE DecimalString(i)

(* ---------------------------- construction ---------------------------- *)
\* S3DModel as constructed for Load: nothing loaded yet
NewModel == [numPieces |-> 0, pieces |-> <<>>, rootPiece |-> 0,
             height |-> 0, radius |-> 0, drawRadius |-> 0,
             relMidPos |-> ZeroVector,
             mins |-> DEF_MIN_SIZE, maxs |-> DEF_MAX_SIZE,
             mesh_minmax |-> <<>>,
             tex1 |-> "", tex2 |-> "", flipTexY |-> FALSE, invertTexAlpha |-> FALSE]

\* SAssPiece as constructed at the top of LoadPiece
NewPiece == [name |-> "", parentName |-> "",
             offset |-> ZeroVector, scaleRotMatrix |-> IdentityMatrix,
             mins |-> DEF_MIN_SIZE, maxs |-> DEF_MAX_SIZE,
             vertices |-> <<>>, vertexDrawIndices |-> <<>>, isEmpty |-> TRUE,
             parent |-> 0, children |-> <<>>,
             goffset |-> ZeroVector, colvol |-> <<>>]

(* ---------------------------- CalculatePerMeshMinMax ------------------- *)
RECURSIVE FoldMins(_, _, _)
FoldMins(acc, verts, i) ==
    IF i > Len(verts) THEN acc ELSE FoldMins(float3Min(acc, verts[i]), verts, i + 1)
RECURSIVE FoldMaxs(_, _, _)
FoldMaxs(acc, verts, i) ==
    IF i > Len(verts) THEN acc ELSE FoldMaxs(float3Max(acc, verts[i]), verts, i + 1)

MeshMinMax(mesh) ==
    LET lo == FoldMins(DEF_MIN_SIZE, mesh.mVertices, 1)
        hi == FoldMaxs(DEF_MAX_SIZE, mesh.mVertices, 1)
    IN  [mins |-> IF lo = DEF_MIN_SIZE THEN ZeroVector ELSE lo,
         maxs |-> IF hi = DEF_MAX_SIZE THEN ZeroVector ELSE hi]

PerMeshMinMax == [i \in 1..Len(meshes) |-> MeshMinMax(meshes[i])]

(* ---------------------------- LoadPieceTransformations ----------------- *)
\* metadata scale, forced uniform
ResolvedScale(n, pieceTable) ==
    LET sp == GetValue(pieceTable.scale, nodes[n].scale)
    IN  IF sp[1] # sp[2] \/ sp[2] # sp[3] THEN <<sp[1], sp[1], sp[1]>> ELSE sp

ResolvedOffset(n, pieceTable) == GetValue(pieceTable.offset, nodes[n].trans)

\* the rotation of the node's transform in engine convention, scaled by the
\* resolved (uniform) scale; the translation is kept apart in the offset
BakedMatrix(n, pieceTable) ==
    MatScale(aiMatrixToMatrix(nodes[n].rot), ResolvedScale(n, pieceTable))

(* ---------------------------- LoadPiece -------------------------------- *)
\* the name before disambiguation
ProvisionalName(n) ==
    LET given == IF nodes[n].mParent # 0 THEN nodes[n].mName ELSE "root"
    IN  IF given = "" THEN "piece" ELSE given

RECURSIVE NextFreeName(_, _, _)
NextFreeName(pieces, base, i) ==
    LET newPieceName == base \o IntToString(i)
    IN  IF newPieceName \notin DOMAIN pieces THEN newPieceName
        ELSE NextFreeName(pieces, base, i + 1)

\* the name is checked against the pieces inserted so far
PieceName(pieces, n) ==
    IF ProvisionalName(n) \notin DOMAIN pieces THEN ProvisionalName(n)
    ELSE NextFreeName(pieces, ProvisionalName(n), 0)

\* union of the extents of the meshes the node references
RECURSIVE PieceExtents(_, _, _, _)
PieceExtents(ext, minmax, refs, i) ==
    IF i > Len(refs) THEN ext
    ELSE PieceExtents([mins |-> float3Min(ext.mins, minmax[refs[i]].mins),
                       maxs |-> float3Max(ext.maxs, minmax[refs[i]].maxs)],
                      minmax, refs, i + 1)

\* "SpringHeight": model height from the node's Z offset unless overridden
SpringHeight(mdl, offset) ==
    IF ~KeyExists(metaTable.height) THEN [mdl EXCEPT !.height = offset[3]] ELSE mdl

\* "SpringRadius": model midpos and radius unless overridden
SpringRadius(mdl, n, offset, scaleRotMatrix, maxs) ==
    LET m1 == IF ~KeyExists(metaTable.midpos)
              THEN [mdl EXCEPT !.relMidPos = MatMul(scaleRotMatrix, offset)]
              ELSE mdl
    IN  IF ~KeyExists(metaTable.radius)
        THEN [m1 EXCEPT !.radius = IF maxs[1] <= 0 THEN nodes[n].scale[1] ELSE maxs[1]]
        ELSE m1

\* vertices of one mesh appended to the piece; mapping[i + 1] is the piece
\* index of mesh-local vertex i
RECURSIVE AppendVertices(_, _, _)
AppendVertices(g, mesh, vertexIndex) ==
    IF vertexIndex >= Len(mesh.mVertices) THEN g
    ELSE AppendVertices(
            [g EXCEPT !.mapping = Append(@, Len(g.vertices)),
                      !.vertices = Append(@, [pos |-> mesh.mVertices[vertexIndex + 1]])],
            mesh, vertexIndex + 1)

\* mutant: the mesh-local index is stored without remapping
VertexDrawIdxLocal(mapping, vertexFaceIdx) == vertexFaceIdx

\* the draw index a face index is stored as
VertexDrawIdx(mapping, vertexFaceIdx) == mapping[vertexFaceIdx + 1]

RECURSIVE AppendFaces(_, _, _)
AppendFaces(g, mesh, faceIndex) ==
    IF faceIndex >= Len(mesh.mFaces) THEN g
    ELSE LET face == mesh.mFaces[faceIndex + 1]
         IN  IF Len(face) # 3 THEN AppendFaces(g, mesh, faceIndex + 1)
             ELSE AppendFaces(
                    [g EXCEPT !.indices = @ \o
                        [k \in 1..3 |-> VertexDrawIdx(g.mapping, face[k])]],
                    mesh, faceIndex + 1)

RECURSIVE ExtractGeometry(_, _, _)
ExtractGeometry(g, refs, meshListIndex) ==
    IF meshListIndex >= Len(refs) THEN g
    ELSE LET mesh == meshes[refs[meshListIndex + 1]]
             gv == AppendVertices([g EXCEPT !.mapping = <<>>], mesh, 0)
         IN  ExtractGeometry(AppendFaces(gv, mesh, 0), refs, meshListIndex + 1)

\* mutant: the parent's import name is used even when the parent is the scene
\* root, which was renamed
ParentNameNoRootRename(n, pieceTable) ==
    IF KeyExists(pieceTable.parent) THEN pieceTable.parent[1]
    ELSE IF nodes[n].mParent # 0 THEN nodes[nodes[n].mParent].mName
    ELSE ""

\* parent name from metadata or from the scene
ParentName(n, pieceTable) ==
    IF KeyExists(pieceTable.parent) THEN pieceTable.parent[1]
    ELSE IF nodes[n].mParent # 0
         THEN IF nodes[nodes[n].mParent].mParent # 0
              THEN nodes[nodes[n].mParent].mName
              ELSE "root"
         ELSE ""

\* model->pieces[piece->name] = piece
InsertPiece(pieces, name, n) ==
    [k \in (DOMAIN pieces) \cup {name} |-> IF k = name THEN n ELSE pieces[k]]

\* L = [model, piece]: the model and the piece objects alive so far
RECURSIVE LoadPiece(_, _)
RECURSIVE LoadChildren(_, _, _)

LoadChildren(L, kids, i) ==
    IF i > Len(kids) THEN L ELSE LoadChildren(LoadPiece(L, kids[i]), kids, i + 1)

LoadPiece(L, n) ==
    LET name == PieceName(L.model.pieces, n)
        pieceTable == SubTable(metaTable.pieces, name)
        offset == ResolvedOffset(n, pieceTable)
        scaleRotMatrix == BakedMatrix(n, pieceTable)
        ext == PieceExtents([mins |-> NewPiece.mins, maxs |-> NewPiece.maxs],
                            L.model.mesh_minmax, nodes[n].mMeshes, 1)
    IN  IF nodes[n].mName = "SpringHeight"
        THEN \* ++numPieces ... --numPieces; the piece is deleted
             [L EXCEPT !.model = SpringHeight(L.model, offset)]
        ELSE IF nodes[n].mName = "SpringRadius"
        THEN [L EXCEPT !.model = SpringRadius(L.model, n, offset, scaleRotMatrix, ext.maxs)]
        ELSE LET g == ExtractGeometry([vertices |-> <<>>, indices |-> <<>>, mapping |-> <<>>],
                                      nodes[n].mMeshes, 0)
                 obj == [NewPiece EXCEPT !.name = name,
                                         !.parentName = ParentName(n, pieceTable),
                                         !.offset = offset,
                                         !.scaleRotMatrix = scaleRotMatrix,
                                         !.mins = ext.mins, !.maxs = ext.maxs,
                                         !.vertices = g.vertices,
                                         !.vertexDrawIndices = g.indices,
                                         !.isEmpty = (g.vertices = <<>>)]
                 L1 == [model |-> [L.model EXCEPT !.numPieces = @ + 1],
                        piece |-> [k \in (DOMAIN L.piece) \cup {n} |->
                                      IF k = n THEN obj ELSE L.piece[k]]]
                 L2 == LoadChildren(L1, mChildren(n), 1)
             IN  [L2 EXCEPT !.model.pieces = InsertPiece(L2.model.pieces, name, n)]

(* ---------------------------- BuildPieceHierarchy ---------------------- *)
\* S3DModel::FindPiece: the piece stored under a name, or NULL
FindPiece(pieces, name) == IF name \in DOMAIN pieces THEN pieces[name] ELSE 0

\* mutant: the parent is set but the piece is not added to its children
AttachParentOnly(H, id, parent) == [H EXCEPT !.piece[id].parent = parent]

\* piece->parent = parent; parent->children.push_back(piece)
Attach(H, id, parent) ==
    [H EXCEPT !.piece = [[@ EXCEPT ![id].parent = parent]
                            EXCEPT ![parent].children = Append(@, id)]]

\* mutant: a declared parent that names no piece falls back to "root"
LinkDeclaredParentOrRoot(H, pieces, id) ==
    LET parent == FindPiece(pieces, H.piece[id].parentName)
        root == FindPiece(pieces, "root")
    IN  IF parent # 0 THEN Attach(H, id, parent)
        ELSE IF root # 0 THEN Attach(H, id, root)
        ELSE [H EXCEPT !.piece[id].parent = 0]

\* a declared parent that names no piece: logged, the piece stays unlinked
LinkDeclaredParent(H, pieces, id) ==
    LET parent == FindPiece(pieces, H.piece[id].parentName)
    IN  IF parent = 0 THEN [H EXCEPT !.piece[id].parent = 0]
        ELSE Attach(H, id, parent)

\* mutant: an orphan goes under the root piece set so far by the pass
LinkOrphanUnderRootSet(H, pieces, id) ==
    IF H.rootPiece = 0 THEN [H EXCEPT !.piece[id].parent = 0]
    ELSE Attach(H, id, H.rootPiece)

\* a piece without a declared parent that is not the root goes under "root"
LinkOrphan(H, pieces, id) ==
    LET parent == FindPiece(pieces, "root")
    IN  IF parent = 0 THEN [H EXCEPT !.piece[id].parent = 0]
        ELSE Attach(H, id, parent)

\* mutant: the piece named "root" becomes the root piece and is then linked
\* like any other piece
LinkPieceRootNotSkipped(H, pieces, id) ==
    LET H1 == IF H.piece[id].name = "root"
              THEN [piece |-> [H.piece EXCEPT ![id].parent = 0], rootPiece |-> id]
              ELSE H
    IN  IF H1.piece[id].parentName # ""
        THEN LinkDeclaredParent(H1, pieces, id)
        ELSE LinkOrphan(H1, pieces, id)

\* one iteration of the loop; H = [piece, rootPiece]
LinkPiece(H, pieces, id) ==
    IF H.piece[id].name = "root"
    THEN [piece |-> [H.piece EXCEPT ![id].parent = 0], rootPiece |-> id]
    ELSE IF H.piece[id].parentName # ""
    THEN LinkDeclaredParent(H, pieces, id)
    ELSE LinkOrphan(H, pieces, id)

\* the loop over model->pieces, visiting the keys in the order given
RECURSIVE LinkAll(_, _, _, _)
LinkAll(H, pieces, order, i) ==
    IF i > Len(order) THEN H
    ELSE LinkAll(LinkPiece(H, pieces, pieces[order[i]]), pieces, order, i + 1)

\* the pass visits, under the order given, some piece before the piece its
\* parent reference resolves to
ForwardReference(pieces, order) ==
    \E i, j \in 1..Len(order) :
        /\ i < j
        /\ piece[pieces[order[i]]].name # "root"
        /\ pieces[order[j]] =
              FindPiece(pieces, IF piece[pieces[order[i]]].parentName # ""
                                THEN piece[pieces[order[i]]].parentName ELSE "root")

\* the orders an iteration over a key set can take
RECURSIVE IterationOrders(_)
IterationOrders(S) ==
    IF S = {} THEN {<<>>}
    ELSE UNION {{<<x>> \o rest : rest \in IterationOrders(S \ {x})} : x \in S}

(* ---------------------------- CalculateModelDimensions ----------------- *)
\* exact for the even coordinates the scenes use
Half(v) == <<v[1] \div 2, v[2] \div 2, v[3] \div 2>>

\* mutant: the parent's global offset is not added
GlobalOffsetLocal(pcs, id) == MatMul(pcs[id].scaleRotMatrix, pcs[id].offset)

GlobalOffset(pcs, id) ==
    float3Add(MatMul(pcs[id].scaleRotMatrix, pcs[id].offset),
              IF pcs[id].parent # 0 THEN pcs[pcs[id].parent].goffset ELSE ZeroVector)

\* W = [model, piece]
RECURSIVE CalculateModelDimensions(_, _)
RECURSIVE DimensionsOfChildren(_, _, _)

DimensionsOfChildren(W, kids, i) ==
    IF i > Len(kids) THEN W
    ELSE DimensionsOfChildren(CalculateModelDimensions(W, kids[i]), kids, i + 1)

CalculateModelDimensions(W, id) ==
    LET p == W.piece[id]
        goffset == GlobalOffset(W.piece, id)
        cvScales == float3Sub(p.maxs, p.mins)
        cvOffset == float3Add(float3Sub(p.maxs, goffset), float3Sub(p.mins, goffset))
        W1 == [model |-> [W.model EXCEPT
                            !.mins = float3Min(float3Add(goffset, p.mins), @),
                            !.maxs = float3Max(float3Add(goffset, p.maxs), @)],
               piece |-> [W.piece EXCEPT
                            ![id].goffset = goffset,
                            ![id].colvol = <<[type |-> "box", scales |-> cvScales,
                                             offset |-> Half(cvOffset)]>>]]
    IN  DimensionsOfChildren(W1, p.children, 1)

(* ---------------------------- CalculateModelProperties ----------------- *)
ComputedRadius(mdl) == float3Length(float3Max(float3Fabs(mdl.maxs), float3Fabs(mdl.mins)))

FinalRadius(mdl) == GetValue(metaTable.radius, ComputedRadius(mdl))
FinalHeight(mdl) == GetValue(metaTable.height, mdl.maxs[3])

ModelProperties(mdl) ==
    LET m1 == [mdl EXCEPT !.relMidPos[2] = (mdl.maxs[2] - mdl.mins[2]) \div 2]
        m2 == [m1 EXCEPT !.radius = FinalRadius(m1),
                         !.height = FinalHeight(m1),
                         !.relMidPos = GetValue(metaTable.midpos, @),
                         !.mins = GetValue(metaTable.mins, @),
                         !.maxs = GetValue(metaTable.maxs, @)]
    IN  [m2 EXCEPT !.drawRadius = m2.radius]

(* ---------------------------- virtual file system ---------------------- *)
File(dir, stem, rest) == [dir |-> dir, stem |-> stem, rest |-> rest]

\* FileSystem::GetFilename: the path without its directory
GetFilename(f) == f.stem \o "." \o f.rest
FilePath(f) == f.dir \o GetFilename(f)

\* CFileHandler::FileExists
FileExists(path) == \E f \in vfsFiles : FilePath(f) = path

\* CFileHandler::FindFiles(dir, stem + ".*"): the files of dir whose name is
\* stem followed by a dot and anything
FindFiles(dir, stem) == {f \in vfsFiles : f.dir = dir /\ f.stem = stem}

\* files[0] of a search result, <<>> when the result is empty; the order of a
\* search result is the file system's
FirstFound(found) == IF found = {} THEN {<<>>} ELSE {<<f>> : f \in found}

(* ---------------------------- FindTextures ----------------------------- *)
\* Load passes its modelName (the model file's name without directory and
\* extension) as FindTextures' modelFilePath: that has no directory part
TexModelPath == ""
TexModelName == modelFilePath.stem

\* if (strcmp(textureFile.C_Str(), "") == 0) model->tex1 = textureFile.C_Str()
MaterialTexture(tex1, textureFile) == IF textureFile = "" THEN textureFile ELSE tex1

\* diffuse, unknown-type and specular texture of the first material
GatherMaterialTextures(tex1) ==
    IF Len(materials) > 0
    THEN MaterialTexture(MaterialTexture(MaterialTexture(tex1, materials[1].diffuse),
                                         materials[1].unknown),
                         materials[1].specular)
    ELSE tex1

\* mutant: the file found by name replaces whatever was resolved before
FoundOrKeepAlways(tex, first) == IF first # <<>> THEN GetFilename(first[1]) ELSE tex

\* a slot still empty takes the name of the first file a search found
FoundOrKeep(tex, first) ==
    IF tex = "" /\ first # <<>> THEN GetFilename(first[1]) ELSE tex

\* correct filepath?
CorrectFilepath(tex) ==
    IF ~FileExists(tex)
    THEN IF FileExists("unittextures/" \o tex) THEN "unittextures/" \o tex
         ELSE IF FileExists(TexModelPath \o tex) THEN TexModelPath \o tex
         ELSE tex
    ELSE tex

\* the texture slots, given files[0] of the three searches
ResolvedTex1(mdl, byName, byDiffuse) ==
    LET fromMeta == GetValue(metaTable.tex1, GatherMaterialTextures(mdl.tex1))
    IN  CorrectFilepath(FoundOrKeep(FoundOrKeep(fromMeta, byName), byDiffuse))

ResolvedTex2(mdl, byName2) ==
    CorrectFilepath(FoundOrKeep(GetValue(metaTable.tex2, mdl.tex2), byName2))

(* ---------------------------- the load sequence ------------------------ *)
CalculatePerMeshMinMax ==
    /\ pc = "minmax"
    /\ model' = [model EXCEPT !.mesh_minmax = PerMeshMinMax]
    /\ pc' = "textures"
    /\ UNCHANGED <<nodes, meshes, materials, vfsFiles, modelFilePath, metaTable, piece,
                   forwardRef>>

FindTextures ==
    /\ pc = "textures"
    /\ \E byName \in FirstFound(FindFiles("unittextures/", TexModelName)),
          byName2 \in FirstFound(FindFiles("unittextures/", TexModelName \o "2")),
          byDiffuse \in FirstFound(FindFiles(TexModelPath, "diffuse")) :
          model' = [model EXCEPT
                      !.tex1 = ResolvedTex1(model, byName, byDiffuse),
                      !.tex2 = ResolvedTex2(model, byName2),
                      !.flipTexY = GetValue(metaTable.fliptextures, TRUE),
                      !.invertTexAlpha = GetValue(metaTable.invertteamcolor, TRUE)]
    /\ pc' = "load"
    /\ UNCHANGED <<nodes, meshes, materials, vfsFiles, modelFilePath, metaTable, piece,
                   forwardRef>>

LoadRootPiece ==
    /\ pc = "load"
    /\ LET L == LoadPiece([model |-> model, piece |-> piece], 1)
       IN  /\ model' = L.model
           /\ piece' = L.piece
    /\ pc' = "link"
    /\ UNCHANGED <<nodes, meshes, materials, vfsFiles, modelFilePath, metaTable, forwardRef>>

BuildPieceHierarchy ==
    /\ pc = "link"
    /\ \E order \in IterationOrders(DOMAIN model.pieces) :
          LET H == LinkAll([piece |-> piece, rootPiece |-> model.rootPiece],
                           model.pieces, order, 1)
          IN  /\ piece' = H.piece
              /\ model' = [model EXCEPT !.rootPiece = H.rootPiece]
              /\ forwardRef' = ForwardReference(model.pieces, order)
    /\ pc' = "props"
    /\ UNCHANGED <<nodes, meshes, materials, vfsFiles, modelFilePath, metaTable>>

\* with no root piece the walk starts by reading through a NULL pointer
CalculateModelProperties ==
    /\ pc = "props"
    /\ IF model.rootPiece = 0
       THEN /\ pc' = "crashed"
            /\ UNCHANGED <<model, piece>>
       ELSE LET W == CalculateModelDimensions([model |-> model, piece |-> piece],
                                              model.rootPiece)
            IN  /\ model' = ModelProperties(W.model)
                /\ piece' = W.piece
                /\ pc' = "done"
    /\ UNCHANGED <<nodes, meshes, materials, vfsFiles, modelFilePath, metaTable, forwardRef>>

Next ==
    \/ CalculatePerMeshMinMax
    \/ FindTextures
    \/ LoadRootPiece
    \/ BuildPieceHierarchy
    \/ CalculateModelProperties

(* ---------------------------- scenes and overlays ---------------------- *)
Node(par, name, trans, scale, rot, refs) ==
    [mParent |-> par, mName |-> name, trans |-> trans, scale |-> scale,
     rot |-> rot, mMeshes |-> refs]

ParentChoices(i) == IF i = 1 THEN {0} ELSE 1..(i - 1)

NoOverlay == [height |-> <<>>, radius |-> <<>>, midpos |-> <<>>,
              mins |-> <<>>, maxs |-> <<>>, pieces |-> <<>>,
              tex1 |-> <<>>, tex2 |-> <<>>,
              fliptextures |-> <<>>, invertteamcolor |-> <<>>]

\* a model file "objects3d/m.dae" in a file system without texture files
NoTextures ==
    /\ materials = <<>>
    /\ vfsFiles = {}
    /\ modelFilePath = File("objects3d/", "m", "dae")

Start ==
    /\ model = NewModel
    /\ piece = <<>>
    /\ forwardRef = FALSE
    /\ pc = "minmax"

\* --- hierarchy scenes: every tree shape and name assignment, overlays that
\* --- give pieces a `parent` key
TreeNames == {"", "A", "root", "SpringHeight", "SpringRadius"}
\* the root's import name is read only by the sentinel tests
TreeRootNames == {"A", "SpringHeight", "SpringRadius"}
OverlayPieceNames == {"A", "A00", "root"}
OverlayParents == {"", "A", "A00", "Z"}

TreeNodes(i) ==
    {Node(par, nm, ZeroVector, OnesVector, IdentityMatrix, <<>>) :
        par \in ParentChoices(i), nm \in IF i = 1 THEN TreeRootNames ELSE TreeNames}

RECURSIVE TreeScenes(_)
TreeScenes(k) ==
    IF k = 0 THEN {<<>>}
    ELSE {Append(s, nd) : s \in TreeScenes(k - 1), nd \in TreeNodes(k)}

ParentTables ==
    UNION {[K -> {[EmptyPieceTable EXCEPT !.parent = <<v>>] : v \in OverlayParents}] :
             K \in SUBSET OverlayPieceNames}

InitTree ==
    /\ nodes \in UNION {TreeScenes(k) : k \in 1..MaxNodes}
    /\ meshes = <<>>
    /\ metaTable \in {[NoOverlay EXCEPT !.pieces = pt] : pt \in ParentTables}
    /\ NoTextures
    /\ Start

Spec == InitTree /\ [][Next]_vars

\* --- dimension scenes: offsets, rotations, scales, one mesh, sentinel nodes,
\* --- overlays with and without `height` and `radius`
DimsNames == {"A", "B", "SpringHeight", "SpringRadius"}
\* translation, rotation, scale and mesh references of a node
DimsPoses == {[trans |-> <<2, 0, 0>>, rot |-> IdentityMatrix, scale |-> OnesVector,
               refs |-> <<>>],
              [trans |-> <<0, 2, 4>>, rot |-> IdentityMatrix, scale |-> OnesVector,
               refs |-> <<>>],
              [trans |-> <<0, 2, 4>>, rot |-> RotZ90Matrix, scale |-> <<2, 1, 1>>,
               refs |-> <<1>>]}
DimsMesh == [mVertices |-> <<<<2, 4, 6>>, <<-2, 0, 8>>, <<0, 0, 0>>>>,
             mFaces |-> <<<<0, 1, 2>>>>]

DimsNodes(i) ==
    {Node(par, nm, pose.trans, pose.scale, pose.rot, pose.refs) :
        par \in ParentChoices(i), nm \in IF i = 1 THEN {"A"} ELSE DimsNames,
        pose \in IF i = 1 THEN {ps \in DimsPoses : ps.refs = <<>>} ELSE DimsPoses}

RECURSIVE DimsScenes(_)
DimsScenes(k) ==
    IF k = 0 THEN {<<>>}
    ELSE {Append(s, nd) : s \in DimsScenes(k - 1), nd \in DimsNodes(k)}

InitDims ==
    /\ nodes \in UNION {DimsScenes(k) : k \in 1..MaxNodes}
    /\ meshes = <<DimsMesh>>
    /\ metaTable \in {NoOverlay, [NoOverlay EXCEPT !.height = <<12>>, !.radius = <<14>>]}
    /\ NoTextures
    /\ Start

SpecDims == InitDims /\ [][Next]_vars

\* --- geometry scenes: one node referencing up to MaxMeshRefs meshes, each
\* --- with up to MaxVerts vertices and up to MaxFaces faces of 1 to 4 indices
MeshVertices(nv) == [i \in 1..nv |-> <<2 * i, 0, 0>>]
FaceChoices(nv) ==
    {<<0>>, <<0, nv - 1>>, <<0, nv - 1, (nv - 1) \div 2>>, <<nv - 1, 0, 0>>,
     <<0, nv - 1, 0, nv - 1>>}

RECURSIVE FaceLists(_, _)
FaceLists(nv, k) ==
    IF k = 0 THEN {<<>>}
    ELSE FaceLists(nv, k - 1) \cup
         {Append(fs, f) : fs \in {x \in FaceLists(nv, k - 1) : Len(x) = k - 1},
                          f \in FaceChoices(nv)}

MeshChoices ==
    {[mVertices |-> <<>>, mFaces |-> <<>>]} \cup
    UNION {{[mVertices |-> MeshVertices(nv), mFaces |-> fs] : fs \in FaceLists(nv, MaxFaces)} :
             nv \in 1..MaxVerts}

SecondMeshes ==
    {[mVertices |-> MeshVertices(3), mFaces |-> <<<<2, 1, 0>>, <<0, 1>>, <<0, 2, 2>>>>],
     [mVertices |-> MeshVertices(2), mFaces |-> <<<<0, 1>>>>]}

RECURSIVE MeshRefLists(_)
MeshRefLists(k) ==
    IF k = 0 THEN {<<>>}
    ELSE MeshRefLists(k - 1) \cup
         {Append(rs, r) : rs \in {x \in MeshRefLists(k - 1) : Len(x) = k - 1}, r \in {1, 2}}

InitGeom ==
    /\ meshes \in {<<m1, m2>> : m1 \in MeshChoices, m2 \in SecondMeshes}
    /\ nodes \in {<<Node(0, "A", ZeroVector, OnesVector, IdentityMatrix, refs)>> :
                    refs \in MeshRefLists(MaxMeshRefs)}
    /\ metaTable = NoOverlay
    /\ NoTextures
    /\ Start

SpecGeom == InitGeom /\ [][Next]_vars

\* --- extent scenes: one mesh of up to MaxVerts vertices, some of them at or
\* --- beyond the +/-10000 initial vectors
VertexPool == {<<1, 2, 3>>, <<-1, 5, 0>>, <<0, 0, 0>>,
               <<10000, 10000, 10000>>, <<-10000, -10000, -10000>>,
               <<10002, 10002, 10002>>, <<-10002, -10002, -10002>>}

RECURSIVE VertexLists(_)
VertexLists(k) ==
    IF k = 0 THEN {<<>>}
    ELSE VertexLists(k - 1) \cup
         {Append(vs, v) : vs \in {x \in VertexLists(k - 1) : Len(x) = k - 1}, v \in VertexPool}

InitMinMax ==
    /\ meshes \in {<<[mVertices |-> vs, mFaces |-> <<>>]>> : vs \in VertexLists(MaxVerts)}
    /\ nodes \in {<<Node(0, "A", ZeroVector, OnesVector, IdentityMatrix, refs)>> :
                    refs \in {<<>>, <<1>>}}
    /\ metaTable = NoOverlay
    /\ NoTextures
    /\ Start

SpecMinMax == InitMinMax /\ [][Next]_vars

\* --- texture scenes: a one-node scene, with and without a first material,
\* --- overlays with and without `tex1`/`tex2`, every file system over a pool
TexFilePool == {File("unittextures/", "m", "dds"), File("unittextures/", "m", "bmp"),
                File("", "m", "dds"), File("unittextures/", "skin", "png"),
                File("unittextures/", "m2", "dds"), File("", "diffuse", "png"),
                File("objects3d/", "skin", "png")}
TexMaterials == {<<>>,
                 <<[diffuse |-> "", unknown |-> "", specular |-> ""]>>,
                 <<[diffuse |-> "mat.png", unknown |-> "", specular |-> "spec.png"]>>}
TexOverlays ==
    {[NoOverlay EXCEPT !.tex1 = t1, !.tex2 = t2, !.fliptextures = fl] :
        t1 \in {<<>>, <<"">>, <<"skin.png">>, <<"m.dds">>},
        t2 \in {<<>>, <<"skin.png">>},
        fl \in {<<>>, <<FALSE>>}}

InitTex ==
    /\ nodes = <<Node(0, "A", ZeroVector, OnesVector, IdentityMatrix, <<>>)>>
    /\ meshes = <<>>
    /\ materials \in TexMaterials
    /\ vfsFiles \in SUBSET TexFilePool
    /\ modelFilePath = File("objects3d/", "m", "dae")
    /\ metaTable \in TexOverlays
    /\ Start

SpecTex == InitTex /\ [][Next]_vars

(* ---------------------------- properties ------------------------------ *)
SentinelNames == {"SpringHeight", "SpringRadius"}
SentinelNodes == {i \in 1..Len(nodes) : nodes[i].mName \in SentinelNames}

TexturesFound == pc \in {"load", "link", "props", "done", "crashed"}
Loaded == pc \in {"link", "props", "done", "crashed"}
Linked == pc \in {"props", "done", "crashed"}

\* the piece objects the name-keyed map holds
MapPieces == {model.pieces[k] : k \in DOMAIN model.pieces}
NonRootMapPieces == {id \in MapPieces : piece[id].name # "root"}

\* the pieces met following parent references from id, id included
RECURSIVE ChainFrom(_, _)
ChainFrom(id, fuel) ==
    IF id = 0 \/ fuel = 0 THEN {}
    ELSE {id} \cup ChainFrom(piece[id].parent, fuel - 1)
ParentChain(id) == ChainFrom(id, Cardinality(DOMAIN piece) + 1)
ReachesRoot(id) == \E q \in ParentChain(id) : piece[q].name = "root"

HasParentKey(id) == KeyExists(SubTable(metaTable.pieces, piece[id].name).parent)
\* the declared parent of a non-root piece comes from an overlay `parent` key
\* (the key of the "root" piece is never read by the linker)
OverlayParented(id) == piece[id].name # "root" /\ HasParentKey(id)
InSomeChildren(id) ==
    \E q \in DOMAIN piece : \E k \in 1..Len(piece[q].children) : piece[q].children[k] = id

\* C1 (as claimed): after LoadPiece on the scene root the piece map holds one
\* piece per scene node that is not named SpringHeight or SpringRadius; taken
\* on the scenes whose sentinel nodes are leaves.
C1_PieceCountAsClaimed ==
    (Loaded /\ \A i \in SentinelNodes : mChildren(i) = <<>>)
        => Cardinality(DOMAIN model.pieces) = Len(nodes) - Cardinality(SentinelNodes)

\* C2 (as claimed): after BuildPieceHierarchy the parent chain of every
\* non-root piece of the map reaches "root", whatever the overlay.
C2_ChainReachesRootAsClaimed ==
    Linked => \A id \in NonRootMapPieces : ReachesRoot(id)

\* C2 (amended): after BuildPieceHierarchy the parent chain of a non-root piece
\* of the map reaches "root" unless a non-root piece on that chain (the piece
\* included) has its declared parent set by an overlay `parent` key.
C2_ChainReachesRoot ==
    Linked => \A id \in NonRootMapPieces :
                 ReachesRoot(id) \/ \E q \in ParentChain(id) : OverlayParented(q)

\* C2 witness: linked, the overlay has a `parent` key for some piece, and a
\* piece two levels below the root reaches it through scene-derived names.
C2_Witness ==
    /\ pc = "props"
    /\ \E q \in MapPieces : HasParentKey(q)
    /\ \E id \in NonRootMapPieces :
          /\ piece[id].parent \notin {0, model.rootPiece}
          /\ ReachesRoot(id)
          /\ \A q \in ParentChain(id) : ~OverlayParented(q)

\* C3 (as claimed): the pieces built in one traversal end with pairwise
\* different names, so no insertion replaces another piece.
C3_NamesDistinctAsClaimed ==
    Loaded => \A p, q \in DOMAIN piece : p # q => piece[p].name # piece[q].name

\* C4 (as claimed): for every scene, after BuildPieceHierarchy the model has a
\* root piece, it is named "root", has no parent and is in no children list.
C4_RootAsClaimed ==
    Linked => /\ model.rootPiece # 0
              /\ piece[model.rootPiece].name = "root"
              /\ piece[model.rootPiece].parent = 0
              /\ ~InSomeChildren(model.rootPiece)

\* a non-root piece whose declared parent names no piece of the map
Unresolved(id) ==
    /\ id \in NonRootMapPieces
    /\ piece[id].parentName # ""
    /\ piece[id].parentName \notin DOMAIN model.pieces

\* C6 (as claimed): a non-root piece whose declared parent names no piece is
\* attached under "root" when "root" exists.
C6_FallbackAsClaimed ==
    Linked => \A id \in DOMAIN piece :
                 (Unresolved(id) /\ "root" \in DOMAIN model.pieces)
                    => /\ piece[id].parent = model.pieces["root"]
                       /\ \E k \in 1..Len(piece[model.pieces["root"]].children) :
                             piece[model.pieces["root"]].children[k] = id

\* C6 (amended): a non-root piece whose declared parent names no piece is left
\* unlinked (no parent, in no children list) also when "root" exists; only a
\* piece with an empty declared parent is attached under "root".
C6_UnresolvedStaysUnlinked ==
    Linked => \A id \in DOMAIN piece :
                 /\ Unresolved(id) => (piece[id].parent = 0 /\ ~InSomeChildren(id))
                 /\ (id \in NonRootMapPieces /\ piece[id].parentName = "")
                       => piece[id].parent = FindPiece(model.pieces, "root")

\* C6 witness: linked, "root" exists, and a piece declares a missing parent.
C6_Witness ==
    /\ pc = "props"
    /\ "root" \in DOMAIN model.pieces
    /\ \E id \in DOMAIN piece : Unresolved(id)
    /\ \E id \in NonRootMapPieces : piece[id].parentName = ""

\* a node LoadPiece is called on: no sentinel node above it
RECURSIVE Visited(_)
Visited(i) ==
    \/ nodes[i].mParent = 0
    \/ /\ nodes[nodes[i].mParent].mName \notin SentinelNames
       /\ Visited(nodes[i].mParent)

VisitedNamed(name) == {i \in 1..Len(nodes) : nodes[i].mName = name /\ Visited(i)}

\* C5 (as claimed): with one SpringHeight node, of local translation Z = h, and
\* no overlay `height` key, the loaded model has height h and the node
\* contributes no piece.
C5_SentinelHeightAsClaimed ==
    (pc = "done" /\ ~KeyExists(metaTable.height))
        => \A i \in VisitedNamed("SpringHeight") :
              Cardinality(VisitedNamed("SpringHeight")) = 1
                 => (model.height = nodes[i].trans[3] /\ i \notin MapPieces)

\* the radius a visited SpringRadius node supplies
SentinelRadius(i) ==
    LET ext == PieceExtents([mins |-> NewPiece.mins, maxs |-> NewPiece.maxs],
                            model.mesh_minmax, nodes[i].mMeshes, 1)
    IN  IF ext.maxs[1] <= 0 THEN nodes[i].scale[1] ELSE ext.maxs[1]

\* C7 (as claimed): the final radius is the overlay `radius` if given, else the
\* value of the SpringRadius node if the scene has one, else the value computed
\* from the bounds; drawRadius equals it.
C7_RadiusPrecedenceAsClaimed ==
    pc = "done"
        => /\ model.drawRadius = model.radius
           /\ KeyExists(metaTable.radius) => model.radius = metaTable.radius[1]
           /\ (~KeyExists(metaTable.radius) /\ VisitedNamed("SpringRadius") = {})
                 => model.radius = ComputedRadius(model)
           /\ ~KeyExists(metaTable.radius)
                 => \A i \in VisitedNamed("SpringRadius") :
                       Cardinality(VisitedNamed("SpringRadius")) = 1
                          => model.radius = SentinelRadius(i)

\* the triangles of a mesh, its indices shifted by base, in face order
RECURSIVE TriangleIndices(_, _, _)
TriangleIndices(faces, base, k) ==
    IF k > Len(faces) THEN <<>>
    ELSE (IF Len(faces[k]) = 3
          THEN <<base + faces[k][1], base + faces[k][2], base + faces[k][3]>>
          ELSE <<>>) \o TriangleIndices(faces, base, k + 1)

\* vertices the meshes refs[1..k] hold together
RECURSIVE VerticesBefore(_, _)
VerticesBefore(refs, k) ==
    IF k = 0 THEN 0 ELSE VerticesBefore(refs, k - 1) + Len(meshes[refs[k]].mVertices)

RECURSIVE ExpectedIndices(_, _)
ExpectedIndices(refs, k) ==
    IF k > Len(refs) THEN <<>>
    ELSE TriangleIndices(meshes[refs[k]].mFaces, VerticesBefore(refs, k - 1), 1)
            \o ExpectedIndices(refs, k + 1)

TriangleCount(refs) ==
    Cardinality(UNION {{<<k, f>> : f \in {f \in 1..Len(meshes[refs[k]].mFaces) :
                                            Len(meshes[refs[k]].mFaces[f]) = 3}} :
                          k \in 1..Len(refs)})

\* C8: a piece's index list is the concatenation, in mesh order then face
\* order, of the indices of the 3-index faces, each shifted by the number of
\* vertices appended before its mesh; so there are 3 indices per triangle and
\* every index is below the piece's vertex count.
C8_TriangleIndices ==
    Loaded => \A id \in DOMAIN piece :
                 /\ piece[id].vertexDrawIndices = ExpectedIndices(nodes[id].mMeshes, 1)
                 /\ Len(piece[id].vertexDrawIndices) = 3 * TriangleCount(nodes[id].mMeshes)
                 /\ \A k \in 1..Len(piece[id].vertexDrawIndices) :
                       piece[id].vertexDrawIndices[k] < Len(piece[id].vertices)

\* C8 witness: a piece built from two mesh references, the first mesh with
\* vertices, the second with triangles and other faces.
C8_Witness ==
    /\ pc = "link"
    /\ \E id \in DOMAIN piece :
          LET refs == nodes[id].mMeshes
          IN  /\ Len(refs) = 2
              /\ Len(meshes[refs[1]].mVertices) > 0
              /\ \E f \in 1..Len(meshes[refs[2]].mFaces) : Len(meshes[refs[2]].mFaces[f]) = 3
              /\ \E f \in 1..Len(meshes[refs[2]].mFaces) : Len(meshes[refs[2]].mFaces[f]) # 3
              /\ \E f \in 1..Len(meshes[refs[1]].mFaces) : Len(meshes[refs[1]].mFaces[f]) = 3
              /\ Len(piece[id].vertexDrawIndices) >= 6

\* the pieces the walk from the root visits
WalkedPieces == {id \in MapPieces : ReachesRoot(id)}

\* sum of the local offsets from the root down to id
RECURSIVE OffsetSum(_, _)
OffsetSum(id, fuel) ==
    IF id = 0 \/ fuel = 0 THEN ZeroVector
    ELSE float3Add(piece[id].offset, OffsetSum(piece[id].parent, fuel - 1))

\* C9: after the walk every piece reachable from the root has global offset
\* (baked matrix applied to its local offset) + its parent's global offset
\* (zero for the root); where every matrix on the path is the identity this is
\* the sum of the local offsets on the path from the root.
C9_GlobalOffset ==
    pc = "done" => \A id \in WalkedPieces :
        /\ piece[id].goffset =
              float3Add(MatMul(piece[id].scaleRotMatrix, piece[id].offset),
                        IF piece[id].parent = 0 THEN ZeroVector
                        ELSE piece[piece[id].parent].goffset)
        /\ (\A q \in ParentChain(id) : piece[q].scaleRotMatrix = IdentityMatrix)
              => piece[id].goffset = OffsetSum(id, Cardinality(DOMAIN piece) + 1)

\* C9 witness: a chain root -> A -> B walked, with identity matrices on one
\* such chain and a rotated, scaled piece elsewhere in the state space.
C9_Witness ==
    /\ pc = "done"
    /\ \E id \in WalkedPieces :
          /\ piece[id].parent # 0
          /\ piece[piece[id].parent].parent # 0
          /\ piece[piece[id].parent].scaleRotMatrix # IdentityMatrix
          /\ piece[id].goffset # OffsetSum(id, Cardinality(DOMAIN piece) + 1)

\* C9 witness of the identity case: root -> A -> B, identity matrices, B's
\* global offset is the sum of the three local offsets.
C9_WitnessIdentity ==
    /\ pc = "done"
    /\ \E id \in WalkedPieces :
          /\ piece[id].parent # 0
          /\ piece[piece[id].parent].parent # 0
          /\ \A q \in ParentChain(id) : piece[q].scaleRotMatrix = IdentityMatrix
          /\ piece[id].offset = <<0, 2, 4>>
          /\ piece[piece[id].parent].offset = <<2, 0, 0>>
          /\ piece[id].goffset = float3Add(<<2, 2, 4>>, piece[model.rootPiece].offset)

\* component-wise extremes of a non-empty vertex list
TrueMin(verts) ==
    [c \in 1..3 |-> CHOOSE x \in {verts[k][c] : k \in 1..Len(verts)} :
                       \A k \in 1..Len(verts) : x <= verts[k][c]]
TrueMax(verts) ==
    [c \in 1..3 |-> CHOOSE x \in {verts[k][c] : k \in 1..Len(verts)} :
                       \A k \in 1..Len(verts) : x >= verts[k][c]]

\* C10 (as claimed): for every mesh with a vertex the per-mesh extents are the
\* component-wise minimum and maximum of its vertex positions, whatever the
\* positions; for a mesh without vertices both are the zero vector.
C10_MeshExtentsAsClaimed ==
    pc # "minmax" => \A i \in 1..Len(meshes) :
        IF meshes[i].mVertices = <<>>
        THEN model.mesh_minmax[i] = [mins |-> ZeroVector, maxs |-> ZeroVector]
        ELSE model.mesh_minmax[i] = [mins |-> TrueMin(meshes[i].mVertices),
                                     maxs |-> TrueMax(meshes[i].mVertices)]

\* the overlay gives slot 1 a non-empty value
OverlayTex1 == KeyExists(metaTable.tex1) /\ metaTable.tex1[1] # ""
\* unittextures/<modelname>.dds
NamedDds == File("unittextures/", TexModelName, "dds")

\* what path normalisation can make of a value
Normalisations(v) == {v, "unittextures/" \o v, modelFilePath.dir \o v, TexModelPath \o v}

\* C11 (as claimed): a non-empty overlay `tex1` is the resolved tex1, possibly
\* with a unittextures/ or model-directory prefix, whatever the first material
\* and the file searches offer; without a non-empty overlay `tex1`, when the
\* file unittextures/<modelname>.dds exists it is the resolved tex1.
C11_Tex1AsClaimed ==
    TexturesFound =>
        /\ OverlayTex1 => model.tex1 \in Normalisations(metaTable.tex1[1])
        /\ (~OverlayTex1 /\ NamedDds \in vfsFiles) => model.tex1 = FilePath(NamedDds)

\* C11 (amended): a non-empty overlay `tex1` is the resolved tex1, possibly
\* with a unittextures/ or model-directory prefix, whatever the first material
\* and the file searches offer; without a non-empty overlay `tex1`, when
\* unittextures/<modelname>.dds exists, is the only file matching
\* unittextures/<modelname>.* and no file <modelname>.dds exists at face
\* value, it is the resolved tex1.
C11_Tex1Resolved ==
    TexturesFound =>
        /\ OverlayTex1 => model.tex1 \in Normalisations(metaTable.tex1[1])
        /\ (/\ ~OverlayTex1
            /\ FindFiles("unittextures/", TexModelName) = {NamedDds}
            /\ ~FileExists(GetFilename(NamedDds)))
              => model.tex1 = FilePath(NamedDds)

\* C11 witness: FindTextures has run with an empty overlay `tex1`, a first
\* material that names textures, a diffuse.* file for the last search, and
\* unittextures/<modelname>.dds was resolved.
C11_Witness ==
    /\ pc = "load"
    /\ metaTable.tex1 = <<"">>
    /\ Len(materials) > 0 /\ materials[1].diffuse # ""
    /\ FindFiles(TexModelPath, "diffuse") # {}
    /\ FindFiles("unittextures/", TexModelName) = {NamedDds}
    /\ model.tex1 = "unittextures/m.dds"

\* C11 witness of the overlay case: a non-empty overlay `tex1` was resolved
\* with the unittextures/ prefix although a file search would have matched.
C11_WitnessOverlay ==
    /\ pc = "load"
    /\ metaTable.tex1 = <<"skin.png">>
    /\ NamedDds \in vfsFiles
    /\ model.tex1 = "unittextures/skin.png"

\* the parent the linking rules give a piece of the map, whatever the order
ExpectedParent(id) ==
    IF piece[id].name = "root" THEN 0
    ELSE IF piece[id].parentName # "" THEN FindPiece(model.pieces, piece[id].parentName)
    ELSE FindPiece(model.pieces, "root")

ChildSet(q) == {piece[q].children[k] : k \in 1..Len(piece[q].children)}

\* C12: BuildPieceHierarchy is order-independent: whatever order the pass
\* visits the map in (every order is a step of the model), each piece ends
\* with the parent the map alone determines and each piece's set of children
\* is the set of map pieces with that parent; this includes the orders that
\* visit a piece before its parent.
C12_OrderIndependent ==
    Linked => /\ \A id \in MapPieces : piece[id].parent = ExpectedParent(id)
              /\ \A q \in DOMAIN piece :
                    ChildSet(q) = {c \in MapPieces : ExpectedParent(c) = q}
              /\ model.rootPiece = FindPiece(model.pieces, "root")

\* C12 witness: the pass visited a piece before its parent, visited two
\* siblings against their load order, and linked a chain root -> parent ->
\* child.
C12_Witness ==
    /\ pc = "props"
    /\ forwardRef
    /\ \E q \in DOMAIN piece :
          Len(piece[q].children) = 2 /\ piece[q].children[1] > piece[q].children[2]
    /\ \E id \in MapPieces : piece[id].parent \notin {0, model.rootPiece}

NoParentKeys == \A k \in DOMAIN metaTable.pieces : ~KeyExists(metaTable.pieces[k].parent)

\* C13 (as claimed): with an overlay without `parent` keys, the piece built
\* from a non-root scene node ends with the piece built from the node's scene
\* parent as its parent, also with duplicate or empty node names; taken on the
\* scenes where no insertion replaced a piece.
C13_MirrorsSceneAsClaimed ==
    (Linked /\ NoParentKeys /\ MapPieces = DOMAIN piece)
        => \A i \in DOMAIN piece :
              nodes[i].mParent # 0 => piece[i].parent = nodes[i].mParent

Occurrences(q, id) ==
    Cardinality({k \in 1..Len(piece[q].children) : piece[q].children[k] = id})

\* C14: after BuildPieceHierarchy, for every piece map and overlay, a piece P
\* is in the children list of Q iff P's parent is Q, it is there once, and no
\* piece is in the children lists of two pieces.
C14_LinksConsistent ==
    Linked => \A p \in DOMAIN piece :
                 /\ \A q \in DOMAIN piece :
                       /\ Occurrences(q, p) > 0 <=> piece[p].parent = q
                       /\ Occurrences(q, p) <= 1
                 /\ Cardinality({q \in DOMAIN piece : Occurrences(q, p) > 0}) <= 1

\* C14 witness: linked under an overlay; one piece is its own parent and its
\* own only child, and the root has another piece as its only child.
C14_Witness ==
    /\ pc = "props"
    /\ \E p \in DOMAIN piece : piece[p].parent = p /\ piece[p].children = <<p>>
    /\ \E c \in NonRootMapPieces :
          piece[c].parent = model.rootPiece /\ piece[model.rootPiece].children = <<c>>

\* the pieces CalculateModelDimensions is called on from id, in call order;
\* a 0 stands for a call below the depth no walk of a tree can reach
RECURSIVE WalkFrom(_, _)
RECURSIVE WalkChildren(_, _, _)
WalkChildren(kids, i, fuel) ==
    IF i > Len(kids) THEN <<>>
    ELSE WalkFrom(kids[i], fuel) \o WalkChildren(kids, i + 1, fuel)
WalkFrom(id, fuel) ==
    IF fuel = 0 THEN <<0>>
    ELSE <<id>> \o WalkChildren(piece[id].children, 1, fuel - 1)
Walk == WalkFrom(model.rootPiece, Cardinality(DOMAIN piece) + 1)

WalkTerminates == \A k \in 1..Len(Walk) : Walk[k] # 0
WalkVisitsOnce == \A j, k \in 1..Len(Walk) : j # k => Walk[j] # Walk[k]
WalkVisited == {Walk[k] : k \in 1..Len(Walk)}
HasVolume == {id \in DOMAIN piece : piece[id].colvol # <<>>}

\* C15 (as claimed): the walk started at the root piece terminates for every
\* linked map, also when overlay `parent` keys make pieces name each other or
\* themselves as parent, visits each piece at most once, and has visited every
\* piece of the map (global offset and collision volume set) when it ends.
C15_WalkAsClaimed ==
    /\ (Linked /\ model.rootPiece # 0)
          => (WalkTerminates /\ WalkVisitsOnce /\ MapPieces \subseteq WalkVisited)
    /\ pc = "done" => MapPieces \subseteq HasVolume

\* C15 (amended): the walk started at the root piece terminates for every
\* linked map, also when overlay `parent` keys make pieces name each other or
\* themselves as parent, and visits each piece at most once; when it ends the
\* pieces visited (collision volume set) are exactly the pieces of the map
\* whose parent chain reaches the root piece.
C15_WalkCoversRootTree ==
    /\ (Linked /\ model.rootPiece # 0)
          => (WalkTerminates /\ WalkVisitsOnce /\ WalkVisited = WalkedPieces)
    /\ pc = "done" => HasVolume = WalkedPieces

\* C15 witness: the walk has ended; it visited the root and a piece below it,
\* and left out a piece that names itself as parent.
C15_Witness ==
    /\ pc = "done"
    /\ Len(Walk) >= 2
    /\ \E p \in MapPieces : piece[p].parent = p /\ piece[p].colvol = <<>>

\* C15 witness of the mutual case: the walk has ended and left out two pieces
\* that name each other as parent.
C15_WitnessMutual ==
    /\ pc = "done"
    /\ \E p, q \in MapPieces :
          /\ p # q /\ piece[p].parent = q /\ piece[q].parent = p
          /\ piece[p].colvol = <<>> /\ piece[q].colvol = <<>>

====
